---- MODULE Spec2Model ----
(***************************************************************************)
(* Pair-HMM realignment engines of src/realignment.rs:                     *)
(*   first_occ_vector / last_occ_vector,                                   *)
(*   forward_algorithm_non_numerically_stable,                             *)
(*   forward_algorithm_numerically_stable,                                 *)
(*   viterbi_max_scoring_alignment.                                        *)
(*                                                                         *)
(* One call of one engine is one behaviour: the arguments are drawn in     *)
(* Init, and the engine runs set-up, then row by row and cell by cell.     *)
(*                                                                         *)
(* Numbers.  An f64 probability is modelled exactly as a dyadic rational   *)
(* [n |-> numerator, e |-> exponent] = n / 2^e (rounding is abstracted:    *)
(* the claims are "up to tolerance").  A LogProb x is modelled by the      *)
(* record [nan, exp] where exp is the probability e^x, so that             *)
(* ln_zero = ln 0, ln_one = ln 1, LogProb + is a product of the exps,      *)
(* ln_add_exp is a sum of the exps, and NaN is a value of its own that     *)
(* every arithmetic operation propagates and every comparison rejects.     *)
(***************************************************************************)
EXTENDS Integers, Sequences, FiniteSets, TLC

\* ---------------------------------------------------------------- bounds
MaxLenV == 4
MaxLenW == 4
MaxBand == 2

Alphabet == {"A", "N"}

\* 0-based indexing of a Vec, as in the source: v[k]
At(seq, k) == seq[k + 1]

RECURSIVE SeqsOfLen(_)
SeqsOfLen(k) ==
  IF k = 0 THEN {<<>>}
  ELSE {Append(s, c) : s \in SeqsOfLen(k - 1), c \in Alphabet}

SeqsUpTo(k) == UNION {SeqsOfLen(l) : l \in 0..k}

\* ------------------------------------------------------- f64 probabilities
RECURSIVE Norm(_, _)
Norm(n, e) ==
  IF n = 0 THEN [n |-> 0, e |-> 0]
  ELSE IF e > 0 /\ n % 2 = 0 THEN Norm(n \div 2, e - 1)
  ELSE [n |-> n, e |-> e]

MaxExp(a, b) == IF a.e > b.e THEN a.e ELSE b.e

\* numerator of a over the denominator 2^e
Scaled(a, e) == a.n * 2^(e - a.e)

PZero == [n |-> 0, e |-> 0]
POne == [n |-> 1, e |-> 0]
PHalf == [n |-> 1, e |-> 1]
PQuarter == [n |-> 1, e |-> 2]
PThreeQuarters == [n |-> 3, e |-> 2]

\* f64 *
PMul(a, b) == Norm(a.n * b.n, a.e + b.e)

\* f64 +
PAdd(a, b) == Norm(Scaled(a, MaxExp(a, b)) + Scaled(b, MaxExp(a, b)), MaxExp(a, b))

\* f64 >
PGt(a, b) == Scaled(a, MaxExp(a, b)) > Scaled(b, MaxExp(a, b))

PLeq(a, b) == ~PGt(a, b)

\* ------------------------------------------------------------ bio::LogProb
NaN == [nan |-> TRUE, exp |-> PZero]
ln_zero == [nan |-> FALSE, exp |-> PZero]
ln_one == [nan |-> FALSE, exp |-> POne]

\* LogProb::from(Prob(p))
LogProbFrom(p) == [nan |-> FALSE, exp |-> p]

\* LogProb + LogProb
LnAdd(a, b) ==
  IF a.nan \/ b.nan THEN NaN ELSE LogProbFrom(PMul(a.exp, b.exp))

\* LogProb > LogProb (false when either side is NaN)
LnGt(a, b) == ~a.nan /\ ~b.nan /\ PGt(a.exp, b.exp)

\* LogProb::ln_add_exp: the larger operand first, ln_zero if that is ln_zero
ln_add_exp(a, b) ==
  LET p0 == IF LnGt(b, a) THEN b ELSE a
      p1 == IF LnGt(b, a) THEN a ELSE b
  IN IF p0 = ln_zero THEN ln_zero
     ELSE IF p0.nan \/ p1.nan THEN NaN
     ELSE LogProbFrom(PAdd(p0.exp, p1.exp))

\* LogProb::ln_sum_exp on three values
ln_sum_exp(probs) ==
  LET m1 == IF LnGt(probs[2], probs[1]) THEN probs[2] ELSE probs[1]
      pmax == IF LnGt(probs[3], m1) THEN probs[3] ELSE m1
  IN IF pmax = ln_zero THEN ln_zero
     ELSE IF \E k \in 1..3 : probs[k].nan THEN NaN
     ELSE LogProbFrom(PAdd(PAdd(probs[1].exp, probs[2].exp), probs[3].exp))

\* ------------------------------------------------------------- parameters
\* TransitionProbs::ln, EmissionProbs::ln
FieldsLn(rec) == [f \in DOMAIN rec |-> LogProbFrom(rec[f])]

\* HomopolymerProbs::ln
HomopolymerLn(hp) == [k \in DOMAIN hp |-> LogProbFrom(hp[k])]

\* AlignmentParameters::ln
ParamsLn(p) ==
  [transition_probs |-> FieldsLn(p.transition_probs),
   emission_probs |-> FieldsLn(p.emission_probs),
   homopolymer_probs |-> HomopolymerLn(p.homopolymer_probs)]

\* homopolymer_probs.0.get(&key): None => 0.0
HpGet(hp, key) == IF key \in DOMAIN hp THEN hp[key] ELSE PZero

\* the bundles the calls are made with
HpTable ==
  [k \in {<<"A", 1, 1>>, <<"A", 1, 2>>, <<"A", 2, 2>>, <<"N", 2, 1>>} |->
     IF k[2] = k[3] THEN PHalf ELSE PQuarter]

HpEmpty == [k \in {} |-> PZero]

Params1 ==
  [transition_probs |->
     [match_from_match |-> PHalf, insertion_from_match |-> PQuarter,
      deletion_from_match |-> PQuarter, insertion_from_insertion |-> PHalf,
      match_from_insertion |-> PHalf, deletion_from_deletion |-> PThreeQuarters,
      match_from_deletion |-> PQuarter],
   emission_probs |->
     [equal |-> POne, not_equal |-> PQuarter, insertion |-> POne, deletion |-> POne],
   homopolymer_probs |-> HpTable]

Params2 ==
  [transition_probs |->
     [match_from_match |-> PHalf, insertion_from_match |-> PHalf,
      deletion_from_match |-> PZero, insertion_from_insertion |-> PHalf,
      match_from_insertion |-> PHalf, deletion_from_deletion |-> PHalf,
      match_from_deletion |-> PHalf],
   emission_probs |->
     [equal |-> PHalf, not_equal |-> PHalf, insertion |-> PHalf, deletion |-> POne],
   homopolymer_probs |-> HpEmpty]

ParamSets == {Params1, Params2}

\* ------------------------------------------------------ run index vectors
RECURSIVE first_occ_loop(_, _, _, _, _)
first_occ_loop(seq, idx, occ, prev_char, prev_occ) ==
  IF idx >= Len(seq) THEN occ
  ELSE IF At(seq, idx) = prev_char
       THEN first_occ_loop(seq, idx + 1, Append(occ, prev_occ), At(seq, idx), prev_occ)
       ELSE first_occ_loop(seq, idx + 1, Append(occ, idx), At(seq, idx), idx)

first_occ_vector(seq) == first_occ_loop(seq, 0, <<>>, "N", 0)

RECURSIVE last_occ_loop(_, _, _, _, _)
last_occ_loop(seq, idx, occ, prev_char, prev_occ) ==
  IF idx < 0 THEN occ
  ELSE IF At(seq, idx) = prev_char
       THEN last_occ_loop(seq, idx - 1, Append(occ, prev_occ), At(seq, idx), prev_occ)
       ELSE last_occ_loop(seq, idx - 1, Append(occ, idx), At(seq, idx), idx)

Reverse(s) == [k \in 1..Len(s) |-> s[Len(s) + 1 - k]]

\* seq.len()-1 underflows on an empty seq: a panic with overflow checks, a
\* wrapped value (and an empty result) without them
last_occ_underflows(seq) == Len(seq) = 0

last_occ_vector_from_zero(seq) ==
  Reverse(last_occ_loop(seq, Len(seq) - 1, <<>>, "N", 0))

last_occ_vector(seq) ==
  Reverse(last_occ_loop(seq, Len(seq) - 1, <<>>, "N", Len(seq) - 1))

\* ------------------------------------------------------------- the band
Abs(x) == IF x < 0 THEN 0 - x ELSE x

BandWidth(sv, sw, mbw) == mbw + Abs(Len(sv) - Len(sw))

BandMiddle(sv, sw, row) == (Len(sw) * row) \div Len(sv)

BandStart(sv, sw, mbw, row) ==
  IF BandMiddle(sv, sw, row) >= BandWidth(sv, sw, mbw) \div 2 + 1
  THEN BandMiddle(sv, sw, row) - BandWidth(sv, sw, mbw) \div 2
  ELSE 1

BandEnd(sv, sw, mbw, row) ==
  IF BandMiddle(sv, sw, row) + BandWidth(sv, sw, mbw) \div 2 <= Len(sw)
  THEN BandMiddle(sv, sw, row) + BandWidth(sv, sw, mbw) \div 2
  ELSE Len(sw)

\* ------------------------------------- the two log-domain engines: set-up
\* upper_prev[1] = deletion_from_match; upper_prev[j] = upper_prev[j-1] + deletion_from_deletion
RECURSIVE upper_row0(_, _)
upper_row0(t, col) ==
  IF col = 1 THEN t.deletion_from_match
  ELSE LnAdd(upper_row0(t, col - 1), t.deletion_from_deletion)

\* upper_prev[1] on a buffer of length w.len()+1 = 1 is out of bounds
LogSetupPanics(sw) == Len(sw) = 0

\* the six rolling buffers after the set-up
LogSetup(sw, lnp) ==
  LET zeros == [c \in 0..Len(sw) |-> ln_zero]
  IN [lower_prev |-> zeros,
      middle_prev |-> [zeros EXCEPT ![0] = ln_one],
      upper_prev |-> [c \in 0..Len(sw) |->
                        IF c = 0 THEN ln_zero ELSE upper_row0(lnp.transition_probs, c)],
      lower_curr |-> zeros,
      middle_curr |-> zeros,
      upper_curr |-> zeros]

LogRowStartAlwaysFromMatch(b, lnp, row, bs) ==
  IF bs = 1
  THEN [b EXCEPT !.middle_curr[0] = ln_zero,
                 !.lower_curr[0] = lnp.transition_probs.insertion_from_match]
  ELSE b

\* if band_start == 1 { middle_curr[0] = ln_zero; lower_curr[0] = ... }
LogRowStart(b, lnp, row, bs) ==
  IF bs = 1
  THEN [b EXCEPT !.middle_curr[0] = ln_zero,
                 !.lower_curr[0] =
                    IF row = 1 THEN lnp.transition_probs.insertion_from_match
                    ELSE LnAdd(b.lower_prev[0],
                               lnp.transition_probs.insertion_from_insertion)]
  ELSE b

\* match_emission
MatchEmission(sv, sw, e, row, col) ==
  IF At(sv, row - 1) = At(sw, col - 1) THEN e.equal ELSE e.not_equal

\* --------------------------------- forward_algorithm_numerically_stable
StableLower(b, t, e, col) ==
  LET lower_continue == LnAdd(b.lower_prev[col], t.insertion_from_insertion)
      lower_from_middle == LnAdd(b.middle_prev[col], t.insertion_from_match)
  IN LnAdd(e.insertion, ln_add_exp(lower_continue, lower_from_middle))

StableUpper(b, t, e, col) ==
  LET upper_continue == LnAdd(b.upper_curr[col - 1], t.deletion_from_deletion)
      upper_from_middle == LnAdd(b.middle_curr[col - 1], t.deletion_from_match)
  IN LnAdd(e.deletion, ln_add_exp(upper_continue, upper_from_middle))

StableMiddleDropsUpper(b, t, match_emission, col) ==
  LET middle_from_lower == LnAdd(b.lower_prev[col - 1], t.match_from_insertion)
      middle_continue == LnAdd(b.middle_prev[col - 1], t.match_from_match)
  IN LnAdd(match_emission, ln_add_exp(middle_from_lower, middle_continue))

StableMiddle(b, t, match_emission, col) ==
  LET middle_from_lower == LnAdd(b.lower_prev[col - 1], t.match_from_insertion)
      middle_continue == LnAdd(b.middle_prev[col - 1], t.match_from_match)
      middle_from_upper == LnAdd(b.upper_prev[col - 1], t.match_from_deletion)
      options3 == <<middle_from_lower, middle_continue, middle_from_upper>>
  IN LnAdd(match_emission, ln_sum_exp(options3))

\* the body of `for j in band_start..(band_end + 1)`
StableCell(b, sv, sw, lnp, row, col) ==
  LET t == lnp.transition_probs
      e == lnp.emission_probs
  IN [b EXCEPT !.lower_curr[col] = StableLower(b, t, e, col),
               !.upper_curr[col] = StableUpper(b, t, e, col),
               !.middle_curr[col] =
                  StableMiddle(b, t, MatchEmission(sv, sw, e, row, col), col)]

\* ----------------------------------------- viterbi_max_scoring_alignment
ViterbiLower(b, t, e, col) ==
  LET lower_continue == LnAdd(b.lower_prev[col], t.insertion_from_insertion)
      lower_from_middle == LnAdd(b.middle_prev[col], t.insertion_from_match)
  IN IF LnGt(lower_continue, lower_from_middle)
     THEN LnAdd(e.insertion, lower_continue)
     ELSE LnAdd(e.insertion, lower_from_middle)

ViterbiUpper(b, t, e, col) ==
  LET upper_continue == LnAdd(b.upper_curr[col - 1], t.deletion_from_deletion)
      upper_from_middle == LnAdd(b.middle_curr[col - 1], t.deletion_from_match)
  IN IF LnGt(upper_continue, upper_from_middle)
     THEN LnAdd(e.deletion, upper_continue)
     ELSE LnAdd(e.deletion, upper_from_middle)

\* for option in options { if option > max_option { max_option = option } }
RECURSIVE max_option_loop(_, _, _)
max_option_loop(options, k, max_option) ==
  IF k > Len(options) THEN max_option
  ELSE max_option_loop(options, k + 1,
                       IF LnGt(options[k], max_option) THEN options[k] ELSE max_option)

ViterbiMiddle(b, t, match_emission, col) ==
  LET middle_from_lower == LnAdd(b.lower_prev[col - 1], t.match_from_insertion)
      middle_continue == LnAdd(b.middle_prev[col - 1], t.match_from_match)
      middle_from_upper == LnAdd(b.upper_prev[col - 1], t.match_from_deletion)
      options == <<middle_from_lower, middle_continue, middle_from_upper>>
  IN LnAdd(match_emission, max_option_loop(options, 1, ln_zero))

ViterbiCell(b, sv, sw, lnp, row, col) ==
  LET t == lnp.transition_probs
      e == lnp.emission_probs
  IN [b EXCEPT !.lower_curr[col] = ViterbiLower(b, t, e, col),
               !.upper_curr[col] = ViterbiUpper(b, t, e, col),
               !.middle_curr[col] =
                  ViterbiMiddle(b, t, MatchEmission(sv, sw, e, row, col), col)]

\* ---------------------------------- the row transition of both log engines
\* for j in (band_start-1)..(band_end + 1) { *_prev[j] = *_curr[j] }
CopyRow(prev, curr, bs, be) ==
  [c \in DOMAIN prev |-> IF c >= bs - 1 /\ c <= be THEN curr[c] ELSE prev[c]]

PoisonIndexAtBandStart(bs) == bs

\* the slot set to NaN when band_start >= 2
PoisonIndex(bs) == bs - 2

Poison(prev, bs) ==
  IF bs >= 2 THEN [prev EXCEPT ![PoisonIndex(bs)] = NaN] ELSE prev

LogRowEnd(b, bs, be) ==
  [lower_prev |-> Poison(CopyRow(b.lower_prev, b.lower_curr, bs, be), bs),
   middle_prev |-> Poison(CopyRow(b.middle_prev, b.middle_curr, bs, be), bs),
   upper_prev |-> Poison(CopyRow(b.upper_prev, b.upper_curr, bs, be), bs),
   lower_curr |-> [b.lower_curr EXCEPT ![bs] = ln_zero],
   middle_curr |-> [b.middle_curr EXCEPT ![bs] = ln_zero],
   upper_curr |-> [b.upper_curr EXCEPT ![bs] = ln_zero]]

\* ---------------------------- forward_algorithm_non_numerically_stable
\* forward_upper[0][1] = deletion_from_match; [0][j] = [0][j-1] * deletion_from_deletion
RECURSIVE forward_upper_row0(_, _)
forward_upper_row0(t, col) ==
  IF col = 1 THEN t.deletion_from_match
  ELSE PMul(forward_upper_row0(t, col - 1), t.deletion_from_deletion)

\* forward_lower[1][0] = insertion_from_match; [i][0] = [i-1][0] * insertion_from_insertion
RECURSIVE forward_lower_col0(_, _)
forward_lower_col0(t, row) ==
  IF row = 1 THEN t.insertion_from_match
  ELSE PMul(forward_lower_col0(t, row - 1), t.insertion_from_insertion)

\* last_occ_vector underflows on an empty v or w (a panic with overflow
\* checks); without them forward_upper[0][1] (empty w) or forward_lower[1][0]
\* (empty v) is out of bounds: every build panics
NonStableSetupPanics(sv, sw) ==
  \/ last_occ_underflows(sv) \/ last_occ_underflows(sw)
  \/ Len(sw) = 0 \/ Len(sv) = 0

\* the three matrices after the set-up
NonStableSetup(sv, sw, p) ==
  [forward_lower |->
     [r \in 0..Len(sv) |-> [c \in 0..Len(sw) |->
        IF c = 0 /\ r >= 1 THEN forward_lower_col0(p.transition_probs, r) ELSE PZero]],
   forward_middle |->
     [r \in 0..Len(sv) |-> [c \in 0..Len(sw) |->
        IF r = 0 /\ c = 0 THEN POne ELSE PZero]],
   forward_upper |->
     [r \in 0..Len(sv) |-> [c \in 0..Len(sw) |->
        IF r = 0 /\ c >= 1 THEN forward_upper_row0(p.transition_probs, c) ELSE PZero]]]

\* the occurrence vectors computed at the top of the call
OccVectors(sv, sw) ==
  [first_occ_v |-> first_occ_vector(sv), first_occ_w |-> first_occ_vector(sw),
   last_occ_v |-> last_occ_vector(sv), last_occ_w |-> last_occ_vector(sw)]

\* v[i-1] == w[j-1] && (first_occ_v[i-1] != i-1 || first_occ_w[j-1] != j-1)
InHomopolymer(sv, sw, occ, row, col) ==
  /\ At(sv, row - 1) = At(sw, col - 1)
  /\ \/ At(occ.first_occ_v, row - 1) # row - 1
     \/ At(occ.first_occ_w, col - 1) # col - 1

\* !(last_occ_v[i-1] == i-1 || last_occ_w[j-1] == j-1): continue
Skipped(occ, row, col) ==
  ~(At(occ.last_occ_v, row - 1) = row - 1 \/ At(occ.last_occ_w, col - 1) = col - 1)

\* the pairs with the column of the first occurrence on w, not the one before it
HpIndicesInsideSquare(occ, row, col) ==
  LET fv == At(occ.first_occ_v, row - 1)
      fw == At(occ.first_occ_w, col - 1)
  IN [k \in 1..(row - 1 - fv) |-> <<row - k, fw + 1>>]
     \o << <<fv, fw>> >>
     \o [k \in 1..(col - 1 - fw) |-> <<fv, fw + k>>]

\* the (h_i, h_j) pairs on the perimeter of the homopolymer square, in the
\* order they are pushed
HpIndices(occ, row, col) ==
  LET fv == At(occ.first_occ_v, row - 1)
      fw == At(occ.first_occ_w, col - 1)
  IN [k \in 1..(row - 1 - fv) |-> <<row - k, fw>>]
     \o << <<fv, fw>> >>
     \o [k \in 1..(col - 1 - fw) |-> <<fv, fw + k>>]

HpKeySwapped(hp_base, row, col, h_i, h_j) == <<hp_base, row - h_i, col - h_j>>

\* hp_len_read = i - h_i; hp_len_ref = j - h_j; key (hp_base, hp_len_ref, hp_len_read)
HpKey(hp_base, row, col, h_i, h_j) == <<hp_base, col - h_j, row - h_i>>

\* forward_middle[i][j] += (lower + middle + upper at (h_i,h_j)) * prob_homopolymer
RECURSIVE HpAccumulate(_, _, _, _, _, _, _, _)
HpAccumulate(F, p, hp_base, row, col, indices, k, acc) ==
  IF k > Len(indices) THEN acc
  ELSE LET h_i == indices[k][1]
           h_j == indices[k][2]
           prob_homopolymer ==
             HpGet(p.homopolymer_probs, HpKey(hp_base, row, col, h_i, h_j))
       IN HpAccumulate(F, p, hp_base, row, col, indices, k + 1,
            PAdd(acc, PMul(PAdd(PAdd(F.forward_lower[h_i][h_j],
                                     F.forward_middle[h_i][h_j]),
                                F.forward_upper[h_i][h_j]),
                           prob_homopolymer)))

\* the else branch: not a homopolymer run
NonStableStandard(F, sv, sw, p, row, col) ==
  LET t == p.transition_probs
      e == p.emission_probs
      lower_continue == PMul(F.forward_lower[row - 1][col], t.insertion_from_insertion)
      lower_from_middle == PMul(F.forward_middle[row - 1][col], t.insertion_from_match)
      upper_continue == PMul(F.forward_upper[row][col - 1], t.deletion_from_deletion)
      upper_from_middle == PMul(F.forward_middle[row][col - 1], t.deletion_from_match)
      middle_from_lower == PMul(F.forward_lower[row - 1][col - 1], t.match_from_insertion)
      middle_continue == PMul(F.forward_middle[row - 1][col - 1], t.match_from_match)
      middle_from_upper == PMul(F.forward_upper[row - 1][col - 1], t.match_from_deletion)
  IN [F EXCEPT
        !.forward_lower[row][col] =
           PMul(e.insertion, PAdd(lower_continue, lower_from_middle)),
        !.forward_upper[row][col] =
           PMul(e.deletion, PAdd(upper_continue, upper_from_middle)),
        !.forward_middle[row][col] =
           PMul(MatchEmission(sv, sw, e, row, col),
                PAdd(PAdd(middle_from_lower, middle_continue), middle_from_upper))]

\* the body of `for j in band_start..(band_end + 1)`
NonStableCell(F, sv, sw, p, occ, row, col) ==
  IF InHomopolymer(sv, sw, occ, row, col)
  THEN IF Skipped(occ, row, col) THEN F
       ELSE [F EXCEPT !.forward_middle[row][col] =
               HpAccumulate(F, p, At(sv, row - 1), row, col,
                            HpIndices(occ, row, col), 1, F.forward_middle[row][col])]
  ELSE NonStableStandard(F, sv, sw, p, row, col)

\* the table look-ups cell (i, j) makes: [i, j, h_i, h_j, key] per perimeter pair
HpLookups(sv, sw, occ, row, col) ==
  IF InHomopolymer(sv, sw, occ, row, col) /\ ~Skipped(occ, row, col)
  THEN [k \in 1..Len(HpIndices(occ, row, col)) |->
          [i |-> row, j |-> col,
           h_i |-> HpIndices(occ, row, col)[k][1],
           h_j |-> HpIndices(occ, row, col)[k][2],
           key |-> HpKey(At(sv, row - 1), row, col,
                         HpIndices(occ, row, col)[k][1], HpIndices(occ, row, col)[k][2])]]
  ELSE <<>>

\* the matrix cells other than (i, j) itself that the body of cell (i, j) reads:
\* none on `continue`, the perimeter pairs in the shortcut, and
\* [i-1][j], [i][j-1], [i-1][j-1] in the else branch
CellReads(sv, sw, occ, row, col) ==
  IF InHomopolymer(sv, sw, occ, row, col)
  THEN IF Skipped(occ, row, col) THEN {}
       ELSE {HpIndices(occ, row, col)[k] : k \in 1..Len(HpIndices(occ, row, col))}
  ELSE {<<row - 1, col>>, <<row, col - 1>>, <<row - 1, col - 1>>}

\* ----------------------------------------- an engine as a pure function
\* The same set-up, row and cell steps, folded over a whole call: what a
\* call with these arguments computes.
LogCell(eng, b, sv, sw, lnp, row, col) ==
  IF eng = "stable" THEN StableCell(b, sv, sw, lnp, row, col)
  ELSE ViterbiCell(b, sv, sw, lnp, row, col)

RECURSIVE LogCells(_, _, _, _, _, _, _, _)
LogCells(eng, b, sv, sw, lnp, row, col, be) ==
  IF col > be THEN b
  ELSE LogCells(eng, LogCell(eng, b, sv, sw, lnp, row, col), sv, sw, lnp, row, col + 1, be)

\* the buffers when the cell loop of `row` has finished, given them at its head
LogRowCells(eng, b, sv, sw, lnp, mbw, row) ==
  LogCells(eng, LogRowStart(b, lnp, row, BandStart(sv, sw, mbw, row)),
           sv, sw, lnp, row, BandStart(sv, sw, mbw, row), BandEnd(sv, sw, mbw, row))

\* the buffers at the head of row `last + 1`, given them at the head of `row`
RECURSIVE LogRows(_, _, _, _, _, _, _, _)
LogRows(eng, b, sv, sw, lnp, mbw, row, last) ==
  IF row > last THEN b
  ELSE LogRows(eng,
               LogRowEnd(LogRowCells(eng, b, sv, sw, lnp, mbw, row),
                         BandStart(sv, sw, mbw, row), BandEnd(sv, sw, mbw, row)),
               sv, sw, lnp, mbw, row + 1, last)

\* the buffers when the cell loop of `row` has finished
LogRowEvaluated(eng, sv, sw, lnp, mbw, row) ==
  LogRowCells(eng, LogRows(eng, LogSetup(sw, lnp), sv, sw, lnp, mbw, 1, row - 1),
              sv, sw, lnp, mbw, row)

\* the value a log engine returns (|w| >= 1)
LogRun(eng, sv, sw, lnp, mbw) ==
  LogRows(eng, LogSetup(sw, lnp), sv, sw, lnp, mbw, 1, Len(sv)).middle_prev[Len(sw)]

RECURSIVE NonStableCells(_, _, _, _, _, _, _, _)
NonStableCells(F, sv, sw, p, occ, row, col, be) ==
  IF col > be THEN F
  ELSE NonStableCells(NonStableCell(F, sv, sw, p, occ, row, col),
                      sv, sw, p, occ, row, col + 1, be)

RECURSIVE NonStableRows(_, _, _, _, _, _, _)
NonStableRows(F, sv, sw, p, occ, mbw, row) ==
  IF row > Len(sv) THEN F
  ELSE NonStableRows(NonStableCells(F, sv, sw, p, occ, row,
                                    BandStart(sv, sw, mbw, row), BandEnd(sv, sw, mbw, row)),
                     sv, sw, p, occ, mbw, row + 1)

\* the value forward_algorithm_non_numerically_stable returns (|v|, |w| >= 1)
NonStableRun(sv, sw, p, mbw) ==
  LogProbFrom(NonStableRows(NonStableSetup(sv, sw, p), sv, sw, p, OccVectors(sv, sw),
                            mbw, 1).forward_middle[Len(sv)][Len(sw)])

\* ------------------------------------------------------------ the call
Engines == {"non_stable", "stable", "viterbi"}
LogEngines == {"stable", "viterbi"}

VARIABLES
  v, w, params, min_band_width,   \* the arguments (params: the linear bundle)
  engine,                         \* the function called
  pc,                             \* start, row, cell, done, panic
  i, j, band_start, band_end,
  first_occ_v, first_occ_w, last_occ_v, last_occ_w,
  forward_lower, forward_middle, forward_upper,
  lower_prev, middle_prev, upper_prev,
  lower_curr, middle_curr, upper_curr,
  hp_lookups,                     \* the table look-ups of the last cell evaluated
  cells_read,                     \* the matrix cells the last step read
  skipped_cells,                  \* the cells (i, j) left by `continue` so far
  result                          \* the LogProb returned

argVars == <<v, w, params, min_band_width, engine>>
occVars == <<first_occ_v, first_occ_w, last_occ_v, last_occ_w>>
matVars == <<forward_lower, forward_middle, forward_upper>>
bufVars == <<lower_prev, middle_prev, upper_prev, lower_curr, middle_curr, upper_curr>>
histVars == <<hp_lookups, cells_read, skipped_cells>>
vars == <<argVars, pc, i, j, band_start, band_end, occVars, matVars, bufVars,
          histVars, result>>

\* the log-domain bundle the caller passes to the two log engines
ln_params == ParamsLn(params)

Bufs ==
  [lower_prev |-> lower_prev, middle_prev |-> middle_prev, upper_prev |-> upper_prev,
   lower_curr |-> lower_curr, middle_curr |-> middle_curr, upper_curr |-> upper_curr]

Mats ==
  [forward_lower |-> forward_lower, forward_middle |-> forward_middle,
   forward_upper |-> forward_upper]

Occ ==
  [first_occ_v |-> first_occ_v, first_occ_w |-> first_occ_w,
   last_occ_v |-> last_occ_v, last_occ_w |-> last_occ_w]

SetBufs(b) ==
  /\ lower_prev' = b.lower_prev
  /\ middle_prev' = b.middle_prev
  /\ upper_prev' = b.upper_prev
  /\ lower_curr' = b.lower_curr
  /\ middle_curr' = b.middle_curr
  /\ upper_curr' = b.upper_curr

SetMats(F) ==
  /\ forward_lower' = F.forward_lower
  /\ forward_middle' = F.forward_middle
  /\ forward_upper' = F.forward_upper

Init ==
  /\ v \in SeqsUpTo(MaxLenV)
  /\ w \in SeqsUpTo(MaxLenW)
  /\ params \in ParamSets
  /\ min_band_width \in 0..MaxBand
  /\ engine \in Engines
  /\ pc = "start"
  /\ i = 0 /\ j = 0 /\ band_start = 0 /\ band_end = 0
  /\ first_occ_v = <<>> /\ first_occ_w = <<>>
  /\ last_occ_v = <<>> /\ last_occ_w = <<>>
  /\ forward_lower = <<>> /\ forward_middle = <<>> /\ forward_upper = <<>>
  /\ lower_prev = <<>> /\ middle_prev = <<>> /\ upper_prev = <<>>
  /\ lower_curr = <<>> /\ middle_curr = <<>> /\ upper_curr = <<>>
  /\ hp_lookups = <<>>
  /\ cells_read = {}
  /\ skipped_cells = {}
  /\ result = ln_zero

\* forward_algorithm_non_numerically_stable up to its row loop
NonStableEnter ==
  /\ engine = "non_stable" /\ pc = "start"
  /\ IF NonStableSetupPanics(v, w)
     THEN /\ pc' = "panic"
          /\ UNCHANGED <<i, occVars, matVars>>
     ELSE /\ pc' = "row"
          /\ i' = 1
          /\ first_occ_v' = OccVectors(v, w).first_occ_v
          /\ first_occ_w' = OccVectors(v, w).first_occ_w
          /\ last_occ_v' = OccVectors(v, w).last_occ_v
          /\ last_occ_w' = OccVectors(v, w).last_occ_w
          /\ SetMats(NonStableSetup(v, w, params))
  /\ UNCHANGED <<argVars, j, band_start, band_end, bufVars, histVars, result>>

\* the two log engines up to their row loop
LogEnter ==
  /\ engine \in LogEngines /\ pc = "start"
  /\ IF LogSetupPanics(w)
     THEN /\ pc' = "panic"
          /\ UNCHANGED <<i, bufVars>>
     ELSE /\ pc' = "row"
          /\ i' = 1
          /\ SetBufs(LogSetup(w, ln_params))
  /\ UNCHANGED <<argVars, j, band_start, band_end, occVars, matVars, histVars, result>>

\* the head of one row: band_middle, band_start, band_end
NonStableBeginRow ==
  /\ engine = "non_stable" /\ pc = "row" /\ i <= Len(v)
  /\ band_start' = BandStart(v, w, min_band_width, i)
  /\ band_end' = BandEnd(v, w, min_band_width, i)
  /\ j' = BandStart(v, w, min_band_width, i)
  /\ pc' = "cell"
  /\ UNCHANGED <<argVars, i, occVars, matVars, bufVars, histVars, result>>

\* the head of one row, and the column 0 of the current row
LogBeginRow ==
  /\ engine \in LogEngines /\ pc = "row" /\ i <= Len(v)
  /\ band_start' = BandStart(v, w, min_band_width, i)
  /\ band_end' = BandEnd(v, w, min_band_width, i)
  /\ j' = BandStart(v, w, min_band_width, i)
  /\ SetBufs(LogRowStart(Bufs, ln_params, i, BandStart(v, w, min_band_width, i)))
  /\ pc' = "cell"
  /\ UNCHANGED <<argVars, i, occVars, matVars, histVars, result>>

NonStableEvalCell ==
  /\ engine = "non_stable" /\ pc = "cell" /\ j <= band_end
  /\ SetMats(NonStableCell(Mats, v, w, params, Occ, i, j))
  /\ hp_lookups' = HpLookups(v, w, Occ, i, j)
  /\ cells_read' = CellReads(v, w, Occ, i, j)
  /\ skipped_cells' =
       IF InHomopolymer(v, w, Occ, i, j) /\ Skipped(Occ, i, j)
       THEN skipped_cells \cup {<<i, j>>}
       ELSE skipped_cells
  /\ j' = j + 1
  /\ UNCHANGED <<argVars, pc, i, band_start, band_end, occVars, bufVars, result>>

StableEvalCell ==
  /\ engine = "stable" /\ pc = "cell" /\ j <= band_end
  /\ SetBufs(StableCell(Bufs, v, w, ln_params, i, j))
  /\ j' = j + 1
  /\ UNCHANGED <<argVars, pc, i, band_start, band_end, occVars, matVars, histVars, result>>

ViterbiEvalCell ==
  /\ engine = "viterbi" /\ pc = "cell" /\ j <= band_end
  /\ SetBufs(ViterbiCell(Bufs, v, w, ln_params, i, j))
  /\ j' = j + 1
  /\ UNCHANGED <<argVars, pc, i, band_start, band_end, occVars, matVars, histVars, result>>

\* the end of the cell loop: the next row
NonStableEndRow ==
  /\ engine = "non_stable" /\ pc = "cell" /\ j > band_end
  /\ i' = i + 1
  /\ pc' = "row"
  /\ UNCHANGED <<argVars, j, band_start, band_end, occVars, matVars, bufVars,
                 histVars, result>>

\* the end of the cell loop: copy, poison, reset, the next row
LogEndRow ==
  /\ engine \in LogEngines /\ pc = "cell" /\ j > band_end
  /\ SetBufs(LogRowEnd(Bufs, band_start, band_end))
  /\ i' = i + 1
  /\ pc' = "row"
  /\ UNCHANGED <<argVars, j, band_start, band_end, occVars, matVars, histVars, result>>

\* LogProb::from(Prob(forward_middle[v.len()][w.len()]))
NonStableReturn ==
  /\ engine = "non_stable" /\ pc = "row" /\ i > Len(v)
  /\ result' = LogProbFrom(forward_middle[Len(v)][Len(w)])
  /\ cells_read' = {<<Len(v), Len(w)>>}
  /\ pc' = "done"
  /\ UNCHANGED <<argVars, i, j, band_start, band_end, occVars, matVars, bufVars,
                 hp_lookups, skipped_cells>>

\* middle_prev[w.len()]
LogReturn ==
  /\ engine \in LogEngines /\ pc = "row" /\ i > Len(v)
  /\ result' = middle_prev[Len(w)]
  /\ pc' = "done"
  /\ UNCHANGED <<argVars, i, j, band_start, band_end, occVars, matVars, bufVars,
                 histVars>>

Next ==
  \/ NonStableEnter
  \/ LogEnter
  \/ NonStableBeginRow
  \/ LogBeginRow
  \/ NonStableEvalCell
  \/ StableEvalCell
  \/ ViterbiEvalCell
  \/ NonStableEndRow
  \/ LogEndRow
  \/ NonStableReturn
  \/ LogReturn

Spec == Init /\ [][Next]_vars

\* ------------------------------------------------------------ properties
LnLeq(a, b) == ~a.nan /\ ~b.nan /\ PLeq(a.exp, b.exp)

MaxOf(x, y) == IF x > y THEN x ELSE y

InBand(row, col) ==
  /\ col >= BandStart(v, w, min_band_width, row)
  /\ col <= BandEnd(v, w, min_band_width, row)

\* the previous-row slots the recurrence of column col reads:
\* lower_prev[j], middle_prev[j], lower_prev[j-1], middle_prev[j-1], upper_prev[j-1]
PrevReads(col) ==
  {<<"lower", col>>, <<"middle", col>>,
   <<"lower", col - 1>>, <<"middle", col - 1>>, <<"upper", col - 1>>}

\* the value of a previous-row slot, as the engine running holds it
PrevValue(r) ==
  IF engine = "non_stable"
  THEN LogProbFrom(IF r[1] = "lower" THEN forward_lower[i - 1][r[2]]
                   ELSE IF r[1] = "middle" THEN forward_middle[i - 1][r[2]]
                   ELSE forward_upper[i - 1][r[2]])
  ELSE IF r[1] = "lower" THEN lower_prev[r[2]]
       ELSE IF r[1] = "middle" THEN middle_prev[r[2]]
       ELSE upper_prev[r[2]]

\* cell (i, j) is about to be evaluated by the three-state recurrence
AtRecurrence ==
  /\ pc = "cell" /\ j <= band_end
  /\ engine = "non_stable" => ~InHomopolymer(v, w, Occ, i, j)

\* C1: in each engine, a previous-row value the recurrence of row i >= 2
\* reads at a column c >= 1 outside the band of row i-1 is zero (log-zero).
C1_OutOfBandReadsZero ==
  (AtRecurrence /\ i >= 2) =>
     \A r \in PrevReads(j) :
        (r[2] >= 1 /\ ~InBand(i - 1, r[2])) => PrevValue(r) = ln_zero

\* no cell of the call takes the homopolymer branch
NoShortcut(sv, sw) ==
  \A row \in 1..Len(sv), col \in 1..Len(sw) :
     ~InHomopolymer(sv, sw, OccVectors(sv, sw), row, col)

\* the band of every row is the whole row
FullBand(sv, sw, mbw) ==
  \A row \in 1..Len(sv) :
     BandStart(sv, sw, mbw, row) = 1 /\ BandEnd(sv, sw, mbw, row) = Len(sw)

StableDone == engine = "stable" /\ pc = "done" /\ Len(v) >= 1 /\ Len(w) >= 1

\* C2 as stated: for min_band_width >= max(|v|,|w|) the stable engine on
\* p.ln() returns what the non-stable engine returns on p, homopolymer runs
\* included.
C2_StableEqualsNonStable ==
  (StableDone /\ min_band_width >= MaxOf(Len(v), Len(w))) =>
     result = NonStableRun(v, w, params, min_band_width)

\* C2 amended: when no cell takes the homopolymer branch and the band of
\* every row is the whole row, the stable engine on p.ln() returns what the
\* non-stable engine returns on p.
C2_StableEqualsNonStableNoShortcutFullBand ==
  (StableDone /\ NoShortcut(v, w) /\ FullBand(v, w, min_band_width)) =>
     result = NonStableRun(v, w, params, min_band_width)

C2_Witness ==
  /\ StableDone /\ NoShortcut(v, w) /\ FullBand(v, w, min_band_width)
  /\ Len(v) >= 2 /\ Len(w) >= 2
  /\ result # ln_zero

\* C3: the value viterbi_max_scoring_alignment returns is at most the value
\* forward_algorithm_numerically_stable returns on the same arguments, and
\* so are the lower, middle and upper values of every evaluated cell.
C3_ViterbiLeqForward ==
  /\ (engine = "viterbi" /\ pc = "done" /\ Len(v) >= 1) =>
        LnLeq(result, LogRun("stable", v, w, ln_params, min_band_width))
  /\ (engine = "viterbi" /\ pc = "cell" /\ j > band_end) =>
        LET forward == LogRowEvaluated("stable", v, w, ln_params, min_band_width, i)
        IN \A c \in band_start..band_end :
              /\ LnLeq(lower_curr[c], forward.lower_curr[c])
              /\ LnLeq(middle_curr[c], forward.middle_curr[c])
              /\ LnLeq(upper_curr[c], forward.upper_curr[c])

C3_Witness ==
  /\ engine = "viterbi" /\ pc = "done" /\ Len(v) >= 2 /\ Len(w) >= 2
  /\ result # ln_zero
  /\ PGt(LogRun("stable", v, w, ln_params, min_band_width).exp, result.exp)

\* C4: in the two log engines no slot the recurrence reads in the previous
\* row holds NaN, and the value returned is not NaN.
C4_PoisonNeverRead ==
  /\ (engine \in LogEngines /\ pc = "cell" /\ j <= band_end) =>
        \A r \in PrevReads(j) : ~PrevValue(r).nan
  /\ (engine \in LogEngines /\ pc = "row" /\ i >= 2 /\ i <= Len(v)
        /\ BandStart(v, w, min_band_width, i) = 1) => ~lower_prev[0].nan
  /\ (engine \in LogEngines /\ pc = "done" /\ Len(v) >= 1) => ~result.nan

C4_Witness ==
  /\ engine \in LogEngines /\ pc = "cell" /\ j <= band_end
  /\ \E c \in DOMAIN middle_prev : middle_prev[c].nan

\* C5: with a non-empty v and an empty w each engine completes without a
\* failure.
C5_EmptyWCompletes ==
  (Len(w) = 0 /\ Len(v) >= 1) => pc # "panic"

\* C6: with an empty v no engine returns a log-probability.
C6_EmptyVRejected ==
  Len(v) = 0 => pc # "done"

\* C7: the stable forward result does not decrease when min_band_width grows:
\* the result of a call is at least the result with any smaller band width.
C7_MonotoneInBandWidth ==
  StableDone =>
     \A b1 \in 0..min_band_width :
        LnLeq(LogRun("stable", v, w, ln_params, b1), result)

\* the first and the last index of the maximal run of equal symbols around k
RunFirst(seq, k) ==
  CHOOSE f \in 0..k :
     /\ \A x \in f..k : At(seq, x) = At(seq, k)
     /\ f = 0 \/ At(seq, f - 1) # At(seq, k)

RunLast(seq, k) ==
  CHOOSE l \in k..(Len(seq) - 1) :
     /\ \A x \in k..l : At(seq, x) = At(seq, k)
     /\ l = Len(seq) - 1 \/ At(seq, l + 1) # At(seq, k)

OccCorrect(seq, first_occ, last_occ) ==
  /\ Len(first_occ) = Len(seq)
  /\ Len(last_occ) = Len(seq)
  /\ \A k \in 0..(Len(seq) - 1) :
        /\ At(first_occ, k) = RunFirst(seq, k)
        /\ At(last_occ, k) = RunLast(seq, k)
        /\ At(first_occ, k) <= k /\ k <= At(last_occ, k)

\* C8: first_occ_vector and last_occ_vector of a non-empty sequence have its
\* length and give, for every position, the first and the last index of the
\* maximal run of equal symbols containing it; the worked examples hold.
\* (The vectors are computed once, on entry, and never written again.)
C8_OccVectorsAreRunBounds ==
  (engine = "non_stable" /\ pc = "row" /\ i = 1) =>
     /\ OccCorrect(v, first_occ_v, last_occ_v)
     /\ OccCorrect(w, first_occ_w, last_occ_w)
     /\ first_occ_vector(<<"A", "T", "C", "C", "C", "C", "T">>) = <<0, 1, 2, 2, 2, 2, 6>>
     /\ last_occ_vector(<<"A", "T", "C", "C", "C", "C", "T">>) = <<0, 1, 5, 5, 5, 5, 6>>
     /\ first_occ_vector(<<"A", "A", "A", "C", "C", "C">>) = <<0, 0, 0, 3, 3, 3>>
     /\ last_occ_vector(<<"A", "A", "A", "C", "C", "C">>) = <<2, 2, 2, 5, 5, 5>>

C8_Witness ==
  /\ engine = "non_stable" /\ pc = "row" /\ i = 1
  /\ Len(w) >= 3
  /\ At(w, 0) = "N" /\ At(w, Len(w) - 1) = "N"
  /\ At(last_occ_w, Len(w) - 2) = Len(w) - 1
  /\ At(first_occ_w, 1) = 0

\* C9: in the two log engines, when a row with band_start >= 2 starts, the
\* current-row slots at band_start-1 hold log-zero.
C9_LeftEdgeIsLogZero ==
  (engine \in LogEngines /\ pc = "cell" /\ j = band_start /\ band_start >= 2) =>
     /\ upper_curr[band_start - 1] = ln_zero
     /\ middle_curr[band_start - 1] = ln_zero
     /\ lower_curr[band_start - 1] = ln_zero

\* C10 as stated: the homopolymer table is looked up with the key
\* (v[i-1], i - h_i, j - h_j).
C10_KeyIsBaseVRunWRun ==
  \A k \in 1..Len(hp_lookups) :
     hp_lookups[k].key =
        <<At(v, hp_lookups[k].i - 1),
          hp_lookups[k].i - hp_lookups[k].h_i,
          hp_lookups[k].j - hp_lookups[k].h_j>>

\* C10 amended: the homopolymer table is looked up with the key
\* (v[i-1], j - h_j, i - h_i): the run length on w is the length on the
\* reference and the run length on v the length on the read.
C10_KeyIsBaseWRunVRun ==
  \A k \in 1..Len(hp_lookups) :
     hp_lookups[k].key =
        <<At(v, hp_lookups[k].i - 1),
          hp_lookups[k].j - hp_lookups[k].h_j,
          hp_lookups[k].i - hp_lookups[k].h_i>>

C10_Witness ==
  \E k \in 1..Len(hp_lookups) :
     /\ hp_lookups[k].i - hp_lookups[k].h_i # hp_lookups[k].j - hp_lookups[k].h_j
     /\ hp_lookups[k].key \in DOMAIN params.homopolymer_probs

\* the cells whose body has run when row i is about to start: in band, on a
\* row before i
Evaluated ==
  {c \in (1..Len(v)) \X (1..Len(w)) : c[1] < i /\ InBand(c[1], c[2])}

\* symbols equal, not the first of its run on at least one sequence, and
\* not the last of its run on either sequence
MidRun(row, col) ==
  /\ At(v, row - 1) = At(w, col - 1)
  /\ RunFirst(v, row - 1) # row - 1 \/ RunFirst(w, col - 1) # col - 1
  /\ RunLast(v, row - 1) # row - 1
  /\ RunLast(w, col - 1) # col - 1

\* C11: in forward_algorithm_non_numerically_stable the cells left by the
\* homopolymer branch are, at the end of every row, exactly the evaluated
\* in-band cells that are equal and mid-run; each of them keeps lower, middle
\* and upper at zero, and no later step reads it: not the three-state
\* recurrence of another cell, not the perimeter of a shortcut, not the return.
C11_SkippedCellsZeroNeverRead ==
  (engine = "non_stable" /\ pc \in {"row", "cell", "done"}) =>
     /\ pc = "row" => skipped_cells = {c \in Evaluated : MidRun(c[1], c[2])}
     /\ \A c \in skipped_cells :
          /\ forward_lower[c[1]][c[2]] = PZero
          /\ forward_middle[c[1]][c[2]] = PZero
          /\ forward_upper[c[1]][c[2]] = PZero
          /\ c \notin cells_read

\* a shortcut with at least three perimeter pairs has just run, and its
\* homopolymer square holds a cell skipped before it
C11_Witness ==
  /\ engine = "non_stable" /\ pc = "cell"
  /\ Len(hp_lookups) >= 3
  /\ \E c \in skipped_cells :
        /\ hp_lookups[1].i >= c[1] /\ hp_lookups[1].j >= c[2]
        /\ At(first_occ_v, hp_lookups[1].i - 1) < c[1]
        /\ At(first_occ_w, hp_lookups[1].j - 1) < c[2]

====
